---- MODULE Spec2Model ----
(***************************************************************************)
(* Tic-tac-toe player (tictactoe.py): the board model (player, actions,    *)
(* result, winner, terminal, utility) and the adversarial search           *)
(* (get_best_utility_value, minimax).                                      *)
(*                                                                         *)
(* A board is a 3x3 grid board[i][j], i, j in 0..2.  random.shuffle is     *)
(* modelled by letting a for loop over a shuffled list take the remaining  *)
(* actions in any order, so every search operator yields the SET of        *)
(* results the program can produce.                                        *)
(***************************************************************************)
EXTENDS Integers, FiniteSets, Sequences, TLC

VARIABLES board, moves, pc, bound, ret, ai, boardObjs, rowObjs, cur

vars == <<board, moves, pc, bound, ret, ai, boardObjs, rowObjs, cur>>

X == "X"
O == "O"
None == "None"
EMPTY == None

InvalidActionError == "InvalidActionError"

\* sys.maxsize; TLC integers are 32 bits wide, the program only compares
\* this value with utilities in -1..1
sys_maxsize == 2147483647

Idx == 0..2

Tile == {EMPTY, X, O}

\* every 3x3 grid of tiles
Grids == [Idx -> [Idx -> Tile]]

\* the cells (i, j) in the order of "for i in range(3): for j in range(3)"
RowMajor == [n \in 1..9 |-> <<(n - 1) \div 3, (n - 1) % 3>>]

Range(s) == {s[n] : n \in DOMAIN s}

max(a, b) == IF a >= b THEN a ELSE b

min(a, b) == IF a <= b THEN a ELSE b

initial_state == [i \in Idx |-> [j \in Idx |-> EMPTY]]

Count(grid, tile) == Cardinality({n \in 1..9 : grid[RowMajor[n][1]][RowMajor[n][2]] = tile})

\* player with the two marks exchanged
player_Swapped(grid) ==
    LET x_count == Count(grid, X)
        o_count == Count(grid, O)
    IN  IF x_count = o_count THEN O ELSE X

player(grid) ==
    LET x_count == Count(grid, X)
        o_count == Count(grid, O)
    IN  IF x_count = o_count THEN X ELSE O

\* winner without the check of the right up to left bottom diagonal
winner_NoAntiDiagonal(grid) ==
    LET RowOrCol(i) ==
            IF grid[i][0] = grid[i][1] /\ grid[i][1] = grid[i][2] /\ grid[i][2] # EMPTY
            THEN grid[i][0]
            ELSE IF grid[0][i] = grid[1][i] /\ grid[1][i] = grid[2][i] /\ grid[2][i] # EMPTY
            THEN grid[0][i]
            ELSE None
    IN  IF RowOrCol(0) # None THEN RowOrCol(0)
        ELSE IF RowOrCol(1) # None THEN RowOrCol(1)
        ELSE IF RowOrCol(2) # None THEN RowOrCol(2)
        ELSE IF grid[0][0] = grid[1][1] /\ grid[1][1] = grid[2][2] /\ grid[2][2] # EMPTY
        THEN grid[0][0]
        ELSE None

winner(grid) ==
    LET RowOrCol(i) ==
            IF grid[i][0] = grid[i][1] /\ grid[i][1] = grid[i][2] /\ grid[i][2] # EMPTY
            THEN grid[i][0]
            ELSE IF grid[0][i] = grid[1][i] /\ grid[1][i] = grid[2][i] /\ grid[2][i] # EMPTY
            THEN grid[0][i]
            ELSE None
    IN  IF RowOrCol(0) # None THEN RowOrCol(0)
        ELSE IF RowOrCol(1) # None THEN RowOrCol(1)
        ELSE IF RowOrCol(2) # None THEN RowOrCol(2)
        ELSE IF grid[0][0] = grid[1][1] /\ grid[1][1] = grid[2][2] /\ grid[2][2] # EMPTY
        THEN grid[0][0]
        ELSE IF grid[0][2] = grid[1][1] /\ grid[1][1] = grid[2][0] /\ grid[2][0] # EMPTY
        THEN grid[0][2]
        ELSE None

terminal(grid) ==
    IF winner(grid) # None THEN TRUE
    ELSE IF \E i \in Idx, j \in Idx : grid[i][j] = EMPTY THEN FALSE
    ELSE TRUE

\* actions without the test of terminal(board)
actions_NoTerminalTest(grid) ==
    SelectSeq(RowMajor, LAMBDA a : grid[a[1]][a[2]] = EMPTY)

\* None on a terminal board, else the list of empty cells in row-major order
actions(grid) ==
    IF terminal(grid) THEN None
    ELSE SelectSeq(RowMajor, LAMBDA a : grid[a[1]][a[2]] = EMPTY)

\* [raised |-> InvalidActionError] or [raised |-> None, value |-> board_copy]
result(grid, action) ==
    IF grid[action[1]][action[2]] # EMPTY
    THEN [raised |-> InvalidActionError, value |-> None]
    ELSE [raised |-> None,
          value |-> [grid EXCEPT ![action[1]][action[2]] = player(grid)]]

utility(grid) ==
    LET ttt_winner == winner(grid)
    IN  IF ttt_winner = X THEN 1
        ELSE IF ttt_winner = O THEN -1
        ELSE 0

(***************************************************************************)
(* get_best_utility_value.  A for loop over the shuffled available_actions *)
(* is a set of loop-head states [rem, local]: rem the actions not yet      *)
(* taken, local the running local_max_util / local_min_util.  rec is the   *)
(* table of the recursive calls: rec[res][util] is the set of values       *)
(* get_best_utility_value(res, util) can return, each with the branch      *)
(* (via) that returned it.                                                 *)
(***************************************************************************)
Utils == {-sys_maxsize - 1, -1, 0, 1, sys_maxsize}

Empties(grid) == {a \in Range(RowMajor) : grid[a[1]][a[2]] = EMPTY}

Return(val, via) == [kind |-> "return", val |-> val, via |-> via, rem |-> {}]

Continue(rem, local) == [kind |-> "continue", val |-> local, via |-> "loop", rem |-> rem]

\* the max loop taking the min of the values
MaxBody_Min(parent_optimal_util, head, action, temp_util) ==
    IF temp_util = 1 THEN Return(1, "early")
    ELSE IF temp_util > parent_optimal_util THEN Return(parent_optimal_util, "cutoff")
    ELSE Continue(head.rem \ {action}, min(temp_util, head.val))

\* the max loop without the return of 1
MaxBody_NoEarlyReturn(parent_optimal_util, head, action, temp_util) ==
    IF temp_util > parent_optimal_util THEN Return(parent_optimal_util, "cutoff")
    ELSE Continue(head.rem \ {action}, max(temp_util, head.val))

\* one pass through the body of the max loop (lines 166-179), the recursive
\* call having returned temp_util
MaxBody(parent_optimal_util, head, action, temp_util) ==
    IF temp_util = 1 THEN Return(1, "early")
    ELSE IF temp_util > parent_optimal_util THEN Return(parent_optimal_util, "cutoff")
    ELSE Continue(head.rem \ {action}, max(temp_util, head.val))

\* one pass through the body of the min loop (lines 192-205)
MinBody(parent_optimal_util, head, action, temp_util) ==
    IF temp_util = -1 THEN Return(-1, "early")
    ELSE IF temp_util < parent_optimal_util THEN Return(parent_optimal_util, "cutoff")
    ELSE Continue(head.rem \ {action}, min(temp_util, head.val))

\* what one more iteration can lead to from the loop heads in heads;
\* calls[action][util] is the set of values the recursive call
\* get_best_utility_value(result(board, action), util) can return
LoopIterate(current_player, parent_optimal_util, calls, heads) ==
    UNION { UNION { { IF current_player = X
                      THEN MaxBody(parent_optimal_util, head, action, r.val)
                      ELSE MinBody(parent_optimal_util, head, action, r.val)
                      : r \in calls[action][head.val] }
                    : action \in head.rem }
            : head \in heads }

\* every loop head and every return the loop can come to, from heads on
RECURSIVE LoopRun(_, _, _, _)
LoopRun(current_player, parent_optimal_util, calls, heads) ==
    IF heads = {} THEN {}
    ELSE LET after == LoopIterate(current_player, parent_optimal_util, calls, heads)
             ended == {Return(head.val, "end") : head \in {h \in heads : h.rem = {}}}
         IN  heads \cup ended \cup {e \in after : e.kind = "return"}
             \cup LoopRun(current_player, parent_optimal_util, calls,
                          {e \in after : e.kind = "continue"})

\* the events (loop heads and returns) of the for loop of
\* get_best_utility_value on a non-terminal board
LoopEvents(grid, parent_optimal_util, calls) ==
    LET current_player == player(grid)
        local == IF current_player = X THEN -sys_maxsize - 1 ELSE sys_maxsize
        available_actions == Range(actions(grid))
    IN  LoopRun(current_player, parent_optimal_util, calls,
                {Continue(available_actions, local)})

\* the set of [val, via] get_best_utility_value(board, parent_optimal_util)
\* can return
get_best_utility_value(grid, parent_optimal_util, calls) ==
    IF terminal(grid) THEN {[val |-> utility(grid), via |-> "terminal"]}
    ELSE {[val |-> e.val, via |-> e.via] :
            e \in {x \in LoopEvents(grid, parent_optimal_util, calls) : x.kind = "return"}}

\* the boards result gives from board, none when board is terminal
Successors(grid) ==
    IF terminal(grid) THEN {}
    ELSE {result(grid, action).value : action \in Empties(grid)}

\* the boards with k empty cells that result gives from the initial state
RECURSIVE GridsWithEmpties(_)
GridsWithEmpties(k) ==
    IF k = 9 THEN {initial_state}
    ELSE UNION {Successors(g) : g \in GridsWithEmpties(k + 1)}

\* a function, evaluated once
Memo(f) == IF f = f THEN f ELSE f

\* the recursive calls a loop over the empty cells of grid makes, looked up
\* in rec, the table for the boards with one empty cell less
Calls(grid, rec) ==
    Memo([action \in Empties(grid) |-> rec[result(grid, action).value]])

\* get_best_utility_value on every board with k empty cells
Level(k, rec) ==
    Memo([g \in GridsWithEmpties(k) |->
            LET calls == IF terminal(g) THEN <<>> ELSE Calls(g, rec)
            IN  [util \in Utils |-> get_best_utility_value(g, util, calls)]])

RECURSIVE Levels(_)
Levels(k) ==
    IF k = 0 THEN <<Level(0, <<>>)>>
    ELSE LET below == Levels(k - 1)
         IN  Append(below, Level(k, below[k]))

\* best_value_table[k + 1][board][util]: the recursion unfolded over the
\* number k of empty cells
best_value_table == Levels(9)

\* the set of values get_best_utility_value(grid, util) can return
best_value(grid, util) == best_value_table[Count(grid, EMPTY) + 1][grid][util]

(***************************************************************************)
(* minimax.  A loop head is [rem, val, best]: the actions not yet taken,   *)
(* local_max_util / local_min_util and best_action.                        *)
(***************************************************************************)
MReturn(action) == [kind |-> "return", val |-> 0, best |-> action, rem |-> {}]

MContinue(rem, local, best_action) ==
    [kind |-> "continue", val |-> local, best |-> best_action, rem |-> rem]

\* the max loop of minimax without the update of local_max_util
MinimaxMaxBody_NoUpdate(head, action, temp_util) ==
    IF temp_util = 1 THEN MReturn(action)
    ELSE IF temp_util > head.val THEN MContinue(head.rem \ {action}, head.val, action)
    ELSE MContinue(head.rem \ {action}, head.val, head.best)

\* one pass through the body of the max loop of minimax (lines 234-243)
MinimaxMaxBody(head, action, temp_util) ==
    IF temp_util = 1 THEN MReturn(action)
    ELSE IF temp_util > head.val THEN MContinue(head.rem \ {action}, temp_util, action)
    ELSE MContinue(head.rem \ {action}, head.val, head.best)

\* the min loop of minimax without the update of local_min_util
MinimaxMinBody_NoUpdate(head, action, temp_util) ==
    IF temp_util = -1 THEN MReturn(action)
    ELSE IF temp_util < head.val THEN MContinue(head.rem \ {action}, head.val, action)
    ELSE MContinue(head.rem \ {action}, head.val, head.best)

\* the min loop of minimax taking the greater value
MinimaxMinBody_Greater(head, action, temp_util) ==
    IF temp_util = -1 THEN MReturn(action)
    ELSE IF temp_util > head.val \/ head.best = <<>>
    THEN MContinue(head.rem \ {action}, temp_util, action)
    ELSE MContinue(head.rem \ {action}, head.val, head.best)

\* one pass through the body of the min loop of minimax (lines 257-266)
MinimaxMinBody(head, action, temp_util) ==
    IF temp_util = -1 THEN MReturn(action)
    ELSE IF temp_util < head.val THEN MContinue(head.rem \ {action}, temp_util, action)
    ELSE MContinue(head.rem \ {action}, head.val, head.best)

MinimaxIterate(current_player, calls, heads) ==
    UNION { UNION { { IF current_player = X
                      THEN MinimaxMaxBody(head, action, r.val)
                      ELSE MinimaxMinBody(head, action, r.val)
                      : r \in calls[action][head.val] }
                    : action \in head.rem }
            : head \in heads }

RECURSIVE MinimaxRun(_, _, _)
MinimaxRun(current_player, calls, heads) ==
    IF heads = {} THEN {}
    ELSE LET after == MinimaxIterate(current_player, calls, heads)
             ended == {MReturn(head.best) : head \in {h \in heads : h.rem = {}}}
         IN  heads \cup ended \cup {e \in after : e.kind = "return"}
             \cup MinimaxRun(current_player, calls, {e \in after : e.kind = "continue"})

\* the events (loop heads and returns) of minimax on a non-terminal board;
\* on the empty board X returns available_actions[0] before the loop
MinimaxEvents(grid) ==
    LET current_player == player(grid)
        available_actions == Range(actions(grid))
    IN  IF current_player = X /\ Cardinality(available_actions) = 9
        THEN {MReturn(action) : action \in available_actions}
        ELSE MinimaxRun(current_player, Calls(grid, best_value_table[Count(grid, EMPTY)]),
                        {MContinue(available_actions,
                                   IF current_player = X THEN -sys_maxsize - 1
                                   ELSE sys_maxsize,
                                   <<>>)})

\* the set of values minimax(board) can return
minimax(grid) ==
    IF terminal(grid) THEN {None}
    ELSE {e.best : e \in {x \in MinimaxEvents(grid) : x.kind = "return"}}

\* minimax on every board, evaluated once: minimax_table[k][board] for a
\* board with k empty cells
minimax_table ==
    Memo([k \in 0..9 |-> Memo([g \in GridsWithEmpties(k) |-> minimax(g)])])

\* the set of values minimax(grid) can return
optimal_action(grid) == minimax_table[Count(grid, EMPTY)][grid]

\* the calls get_best_utility_value(result(board, action), util) that the
\* loop heads in events make
CallsOf(events) ==
    UNION {{<<action, head.val>> : action \in head.rem} :
             head \in {e \in events : e.kind = "continue"}}

(***************************************************************************)
(* The game.  A host applies actions to the board, starting from the       *)
(* initial state; the players in ai play the action minimax returns, the   *)
(* others any action listed by actions(board).  ret is the action minimax  *)
(* returned, <<>> when the host holds none.                                *)
(***************************************************************************)
InitCommon ==
    /\ board = initial_state
    /\ moves = 0
    /\ bound = None
    /\ ret = <<>>
    /\ boardObjs = <<>>
    /\ rowObjs = <<>>
    /\ cur = 0

Init ==
    /\ InitCommon
    /\ pc = "game"
    /\ ai \in SUBSET {X, O}

\* action = minimax(board)
Ask ==
    /\ pc = "game"
    /\ ~terminal(board)
    /\ ret' \in optimal_action(board)
    /\ pc' = "asked"
    /\ UNCHANGED <<board, moves, bound, ai, boardObjs, rowObjs, cur>>

\* board = result(board, action) for an action listed by actions(board)
Move(action) ==
    /\ pc \in {"game", "asked"}
    /\ actions(board) # None
    /\ action \in Range(actions(board))
    /\ player(board) \in ai => pc = "asked" /\ action = ret
    /\ result(board, action).raised = None
    /\ board' = result(board, action).value
    /\ moves' = moves + 1
    /\ pc' = "game"
    /\ ret' = <<>>
    /\ UNCHANGED <<bound, ai, boardObjs, rowObjs, cur>>

Next ==
    \/ Ask
    \/ \E action \in Range(RowMajor) : Move(action)

Spec == Init /\ [][Next]_vars

\* the game loop goes on until the board is terminal
FairSpec == Spec /\ WF_vars(Next)

(***************************************************************************)
(* The search.  From any board of the game, follow the calls of            *)
(* get_best_utility_value that minimax(board) makes, directly or           *)
(* recursively: board and bound are the arguments of the current call.     *)
(***************************************************************************)
InitSearch ==
    /\ InitCommon
    /\ pc = "game"
    /\ ai = {}

\* the current call becomes get_best_utility_value(result(board, action), util)
Enter(action, util) ==
    /\ board' = result(board, action).value
    /\ bound' = util
    /\ moves' = moves + 1
    /\ pc' = "search"
    /\ UNCHANGED <<ret, ai, boardObjs, rowObjs, cur>>

\* minimax(board) calls get_best_utility_value(result(board, action), util)
MinimaxCall ==
    /\ pc = "game"
    /\ ~terminal(board)
    /\ \E call \in CallsOf(MinimaxEvents(board)) : Enter(call[1], call[2])

\* get_best_utility_value(board, bound) calls
\* get_best_utility_value(result(board, action), util)
RecursiveCall ==
    /\ pc = "search"
    /\ ~terminal(board)
    /\ \E call \in CallsOf(LoopEvents(board, bound,
                                      Calls(board, best_value_table[Count(board, EMPTY)]))) :
          Enter(call[1], call[2])

NextSearch ==
    \/ \E action \in Range(RowMajor) : Move(action)
    \/ MinimaxCall
    \/ RecursiveCall

SpecSearch == InitSearch /\ [][NextSearch]_vars

(***************************************************************************)
(* result on objects.  A board is a list object of three row objects:      *)
(* boardObjs[ref][i] is the reference of row i of board ref, rowObjs[r][j] *)
(* tile j of row r.  cur is the board the host holds; ret records the last *)
(* call result(board, action) and the exception it raised.                 *)
(***************************************************************************)
\* the host of SpecHeap stops after MaxResults boards returned by result
MaxResults == 5

\* the grid a board object holds
Deref(bobjs, robjs, ref) == [i \in Idx |-> robjs[bobjs[ref][i]]]

\* copy.copy(board): a new board object of the same three row objects
deepcopy_Shallow(bobjs, robjs, ref) ==
    [boardObjs |-> Append(bobjs, bobjs[ref]),
     rowObjs |-> robjs,
     ref |-> Len(bobjs) + 1]

\* copy.deepcopy(board): a new board object of three new row objects
deepcopy(bobjs, robjs, ref) ==
    [boardObjs |-> Append(bobjs, [i \in Idx |-> Len(robjs) + i + 1]),
     rowObjs |-> robjs \o [n \in 1..3 |-> robjs[bobjs[ref][n - 1]]],
     ref |-> Len(bobjs) + 1]

\* result without the test that the cell is EMPTY
result_obj_NoTest(bobjs, robjs, ref, action) ==
    LET c == deepcopy(bobjs, robjs, ref)
        mark == player(Deref(c.boardObjs, c.rowObjs, c.ref))
    IN  [raised |-> None, ref |-> c.ref,
         boardObjs |-> c.boardObjs,
         rowObjs |-> [c.rowObjs EXCEPT
                        ![c.boardObjs[c.ref][action[1]]][action[2]] = mark]]

\* result(board, action) on the heap: the exception raised, the board
\* returned and the heap it leaves
result_obj(bobjs, robjs, ref, action) ==
    IF robjs[bobjs[ref][action[1]]][action[2]] # EMPTY
    THEN [raised |-> InvalidActionError, ref |-> ref,
          boardObjs |-> bobjs, rowObjs |-> robjs]
    ELSE LET c == deepcopy(bobjs, robjs, ref)
             mark == player(Deref(c.boardObjs, c.rowObjs, c.ref))
         IN  [raised |-> None, ref |-> c.ref,
              boardObjs |-> c.boardObjs,
              rowObjs |-> [c.rowObjs EXCEPT
                             ![c.boardObjs[c.ref][action[1]]][action[2]] = mark]]

InitHeap ==
    /\ rowObjs = [n \in 1..3 |-> [j \in Idx |-> EMPTY]]
    /\ boardObjs = <<[i \in Idx |-> i + 1]>>
    /\ cur = 1
    /\ board = initial_state
    /\ moves = 0
    /\ pc = "heap"
    /\ bound = None
    /\ ret = [action |-> <<>>, raised |-> None]
    /\ ai = {}

\* board = result(board, action), the call returning a board
Apply(action) ==
    /\ pc = "heap"
    /\ moves < MaxResults
    /\ LET r == result_obj(boardObjs, rowObjs, cur, action)
       IN  /\ r.raised = None
           /\ boardObjs' = r.boardObjs
           /\ rowObjs' = r.rowObjs
           /\ cur' = r.ref
           /\ board' = Deref(r.boardObjs, r.rowObjs, r.ref)
           /\ ret' = [action |-> action, raised |-> None]
    /\ moves' = moves + 1
    /\ UNCHANGED <<pc, bound, ai>>

\* board = result(board, action), the call raising: no assignment, and the
\* exception leaves the host's loop
ApplyRaises(action) ==
    /\ pc = "heap"
    /\ LET r == result_obj(boardObjs, rowObjs, cur, action)
       IN  /\ r.raised # None
           /\ boardObjs' = r.boardObjs
           /\ rowObjs' = r.rowObjs
           /\ board' = Deref(r.boardObjs, r.rowObjs, cur)
           /\ ret' = [action |-> action, raised |-> r.raised]
    /\ pc' = "raised"
    /\ UNCHANGED <<cur, moves, bound, ai>>

NextHeap ==
    \/ \E action \in Range(RowMajor) : Apply(action)
    \/ \E action \in Range(RowMajor) : ApplyRaises(action)

SpecHeap == InitHeap /\ [][NextHeap]_vars

(***************************************************************************)
(* winner on every 3x3 grid.                                               *)
(***************************************************************************)
InitWinner ==
    /\ board \in Grids
    /\ moves = 0
    /\ pc = "grid"
    /\ bound = None
    /\ ret = None
    /\ ai = {}
    /\ boardObjs = <<>>
    /\ rowObjs = <<>>
    /\ cur = 0

\* ret = winner(board)
CallWinner ==
    /\ pc = "grid"
    /\ ret' = winner(board)
    /\ pc' = "done"
    /\ UNCHANGED <<board, moves, bound, ai, boardObjs, rowObjs, cur>>

NextWinner == CallWinner

SpecWinner == InitWinner /\ [][NextWinner]_vars

(***************************************************************************)
(* Reference: the minimax value of a board, by exhaustive search without   *)
(* pruning, early return or order.                                         *)
(***************************************************************************)
SetMax(S) == CHOOSE v \in S : \A w \in S : w <= v

SetMin(S) == CHOOSE v \in S : \A w \in S : v <= w

RefLevel(k, rec) ==
    Memo([g \in GridsWithEmpties(k) |->
            IF terminal(g) THEN utility(g)
            ELSE LET children == {rec[result(g, a).value] : a \in Empties(g)}
                 IN  IF player(g) = X THEN SetMax(children) ELSE SetMin(children)])

RECURSIVE RefLevels(_)
RefLevels(k) ==
    IF k = 0 THEN <<RefLevel(0, <<>>)>>
    ELSE LET below == RefLevels(k - 1)
         IN  Append(below, RefLevel(k, below[k]))

RefTable == RefLevels(9)

RefValue(grid) == RefTable[Count(grid, EMPTY) + 1][grid]

(***************************************************************************)
(* Properties of the search.                                               *)
(***************************************************************************)
\* C1: on every non-terminal board of the game, whatever the shuffles, the
\* action minimax returns is an empty cell of the board, and the minimax
\* value of the board it leads to equals the minimax value of the board.
MinimaxReturnsOptimalAction ==
    pc = "asked" =>
        /\ ret \in Empties(board)
        /\ RefValue(result(board, ret).value) = RefValue(board)

\* C2: when both players play the action minimax returns, the game comes to
\* a terminal board of utility 0 and stays there.
OptimalPlayEndsInDraw ==
    (ai = {X, O}) ~> [](terminal(board) /\ utility(board) = 0 /\ moves <= 9)

\* the running best a caller starts with: sys.maxsize when the caller is the
\* min player (X to move on grid), -sys.maxsize - 1 when it is the max player
InitialBound(grid) == IF player(grid) = X THEN sys_maxsize ELSE -sys_maxsize - 1

\* C3: every call get_best_utility_value(board, bound) the program makes
\* returns the minimax value of the board, whatever the shuffles; so does a
\* call on any board of the game with the bound a caller starts with.
BestValueIsMinimaxValue ==
    /\ pc = "search" => \A r \in best_value(board, bound) : r.val = RefValue(board)
    /\ pc = "game" =>
          \A r \in best_value(board, InitialBound(board)) : r.val = RefValue(board)

\* C9: a player who plays the action minimax returns never loses.
MinimaxNeverLoses ==
    terminal(board) =>
        /\ X \in ai => utility(board) # -1
        /\ O \in ai => utility(board) # 1

\* C10: no call of get_best_utility_value the program makes returns through
\* the cutoff branch, and none returns a value outside -1..1.
CutoffNeverTaken ==
    pc = "search" =>
        \A r \in best_value(board, bound) : r.via # "cutoff" /\ r.val \in {-1, 0, 1}

(***************************************************************************)
(* Properties of the board model.                                          *)
(***************************************************************************)
\* C4: result on an occupied cell raises InvalidActionError, returns no
\* board (the host keeps its board, no object is created) and leaves every
\* board object as it was, on terminal boards too.
OccupiedCellRaises ==
    [][LET input == Deref(boardObjs, rowObjs, cur)
       IN  input[ret'.action[1]][ret'.action[2]] # EMPTY =>
               /\ ret'.raised = InvalidActionError
               /\ cur' = cur
               /\ boardObjs' = boardObjs
               /\ rowObjs' = rowObjs]_vars

OccupiedCellRaised ==
    /\ pc = "raised"
    /\ ret.raised = InvalidActionError
    /\ terminal(Deref(boardObjs, rowObjs, cur))
    /\ \E i \in Idx, j \in Idx : Deref(boardObjs, rowObjs, cur)[i][j] = EMPTY

\* C5: result on an empty cell returns a new board that holds the mover's
\* mark in the target cell and equals the input in the other cells, and no
\* board returned before (the input among them) changes in any cell.
ResultReturnsFreshBoard ==
    [][LET input == Deref(boardObjs, rowObjs, cur)
           i == ret'.action[1]
           j == ret'.action[2]
           output == Deref(boardObjs', rowObjs', cur')
       IN  input[i][j] = EMPTY =>
               /\ ret'.raised = None
               /\ cur' \notin DOMAIN boardObjs
               /\ output[i][j] = player(input)
               /\ \A k \in Idx, l \in Idx : <<k, l>> # <<i, j>> => output[k][l] = input[k][l]
               /\ \A ref \in DOMAIN boardObjs :
                     Deref(boardObjs', rowObjs', ref) = Deref(boardObjs, rowObjs, ref)]_vars

ResultApplied ==
    /\ pc = "heap"
    /\ moves >= 3
    /\ ret.raised = None
    /\ Len(boardObjs) = moves + 1

\* C6: the turn alternates: X on the initial board and after every even
\* number of moves, O after every odd number.
TurnAlternates ==
    pc \in {"game", "asked"} => player(board) = (IF moves % 2 = 0 THEN X ELSE O)

TurnAlternated ==
    /\ pc = "game"
    /\ moves = 3
    /\ player(board) = O

\* the lines in the order row 0, row 1, row 2, column 0, column 1, column 2,
\* main diagonal, anti-diagonal
Lines ==
    <<  <<<<0, 0>>, <<0, 1>>, <<0, 2>>>>, <<<<1, 0>>, <<1, 1>>, <<1, 2>>>>,
        <<<<2, 0>>, <<2, 1>>, <<2, 2>>>>, <<<<0, 0>>, <<1, 0>>, <<2, 0>>>>,
        <<<<0, 1>>, <<1, 1>>, <<2, 1>>>>, <<<<0, 2>>, <<1, 2>>, <<2, 2>>>>,
        <<<<0, 0>>, <<1, 1>>, <<2, 2>>>>, <<<<0, 2>>, <<1, 1>>, <<2, 0>>>>  >>

Complete(grid, line, mark) == \A n \in 1..3 : grid[line[n][1]][line[n][2]] = mark

CompleteLines(grid) ==
    {n \in DOMAIN Lines : Complete(grid, Lines[n], X) \/ Complete(grid, Lines[n], O)}

FirstCompleteLine(grid) ==
    IF CompleteLines(grid) = {} THEN None
    ELSE LET first == CHOOSE n \in CompleteLines(grid) : \A m \in CompleteLines(grid) : n <= m
         IN  grid[Lines[first][1][1]][Lines[first][1][2]]

\* C7: on every 3x3 grid winner returns the mark of the first complete line
\* in the order of Lines, and None when there is none.
WinnerIsFirstCompleteLine ==
    pc = "done" => ret = FirstCompleteLine(board)

WinnerOfTwoLines ==
    /\ pc = "done"
    /\ ret = O
    /\ \E n \in DOMAIN Lines : Complete(board, Lines[n], X)

\* C8: no board of the game holds a complete line of X together with a
\* complete line of O.
AtMostOneWinner ==
    pc \in {"game", "asked"} =>
        ~ /\ \E n \in DOMAIN Lines : Complete(board, Lines[n], X)
          /\ \E n \in DOMAIN Lines : Complete(board, Lines[n], O)

GameWon ==
    /\ pc = "game"
    /\ moves = 9
    /\ winner(board) = X
    /\ actions(board) = None

\* witnesses of the search properties
OptimalActionAsked ==
    /\ pc = "asked"
    /\ moves = 4
    /\ RefValue(board) = 1
    /\ \E a \in Empties(board) : RefValue(result(board, a).value) < 1

DrawReached ==
    /\ ai = {X, O}
    /\ moves = 9
    /\ terminal(board)
    /\ utility(board) = 0

BestValueCalled ==
    /\ pc = "search"
    /\ ~terminal(board)
    /\ bound = 0
    /\ [val |-> 0, via |-> "end"] \in best_value(board, bound)

OpponentLost ==
    /\ ai = {O}
    /\ terminal(board)
    /\ utility(board) = -1

EarlyReturnTaken ==
    /\ pc = "search"
    /\ bound \in {-1, 0, 1}
    /\ \E r \in best_value(board, bound) : r.via = "early"

====
